---- MODULE Spec2Model ----
(***************************************************************************)
(* Habit tracker (app/main.py, app/utils.py, app/models.py): the store of  *)
(* habits and completions, the request handlers that change it, and the    *)
(* statistics computed from it.                                            *)
(*                                                                         *)
(* Dates are day numbers.  created_at / updated_at are kept at the         *)
(* precision of their calendar date, which is all the statistics read.     *)
(* The application clock and the store clock are one clock (`today`).      *)
(* notes / rating of a completion and the users table are payload that no  *)
(* handler branches on and are left out; the two users exist from Init.    *)
(* A float rate is kept as the exact fraction <<numerator, denominator>>.  *)
(***************************************************************************)
EXTENDS Integers, Sequences, FiniteSets, TLC

MaxHabits == 2          \* habits created over a run
MaxCompletions == 2     \* completions inserted over a run
MaxDay == 1             \* last calendar day the clock reaches
MaxStatDay == 4         \* the same, for the one-habit history of SpecStats
MaxStatCompletions == 3 \* completions inserted over a run of SpecStats
MaxWeeklyDay == 30      \* last calendar day of SpecWeekly: past the four-week window

Users == {1, 2}
Procs == {1, 2}         \* concurrent create_completion requests
None == -1              \* null date / absent Optional[date]
NoStr == "None"         \* null string / absent Optional[str]

Names == {"run"}
Descriptions == {NoStr, "5km"}
Frequencies == {"daily"}

VARIABLES today, habits, completions, nextHabitId, nextCompletionId, pc, req, resp
\* a get_today_habits request in flight, when it is followed query by query
VARIABLE tv

vars == <<today, habits, completions, nextHabitId, nextCompletionId, pc, req, resp, tv>>

HabitIds == 1..MaxHabits
\* completed_date values a request may carry: schemas.HabitCompletionCreate
\* puts no constraint on the date, so past and future dates are accepted
RequestDates == {None, today - 1, today, today + 1}

----------------------------------------------------------------------------
(* app/utils.py *)

CompletionsOf(habit_id) == {c \in completions : c.habit_id = habit_id}

DatesOf(habit_id) == {c.completed_date : c \in CompletionsOf(habit_id)}

\* the day count without the + 1
days_existed_exclusive(habit_id) == today - habits[habit_id].created_at

days_existed(habit_id) == (today - habits[habit_id].created_at) + 1

\* the share of the days without a completion instead of the days with one
calculate_completion_rate_missed(habit_id) ==
    IF habit_id \notin DOMAIN habits THEN <<0, 1>>
    ELSE IF days_existed(habit_id) > 0
         THEN <<(days_existed(habit_id) - Cardinality(CompletionsOf(habit_id))) * 100,
                days_existed(habit_id)>>
         ELSE <<0, 1>>

\* the rate as a fraction: <<n, d>> stands for the float n / d
calculate_completion_rate(habit_id) ==
    IF habit_id \notin DOMAIN habits THEN <<0, 1>>
    ELSE IF days_existed(habit_id) > 0
         THEN <<Cardinality(CompletionsOf(habit_id)) * 100, days_existed(habit_id)>>
         ELSE <<0, 1>>

\* .order_by(completed_date.desc()).all(): the dates, one per record
RECURSIVE OrderByDateDesc(_)
OrderByDateDesc(S) ==
    IF S = {} THEN << >>
    ELSE LET m == CHOOSE r \in S : \A q \in S : q.completed_date <= r.completed_date
         IN  <<m.completed_date>> \o OrderByDateDesc(S \ {m})

StreakMatch(comp_date, current_date) ==
    comp_date = current_date \/ comp_date = current_date - 1

\* the for loop of calculate_current_streak from position i on
RECURSIVE StreakLoop(_, _, _, _)
StreakLoop(dates, i, streak, current_date) ==
    IF i > Len(dates) THEN streak
    ELSE IF StreakMatch(dates[i], current_date)
         THEN StreakLoop(dates, i + 1, streak + 1, dates[i])
         ELSE streak

StreakOf(S, day) == StreakLoop(OrderByDateDesc(S), 1, 0, day)

calculate_current_streak(habit_id) == StreakOf(CompletionsOf(habit_id), today)

\* round(rate, 2), in hundredths
Round2(rate) == (rate[1] * 200 + rate[2]) \div (2 * rate[2])

\* the labels of the two columns get_weekly_completions selects
WeeklyLabels == {"date_of_week", "count"}

\* extract("dow", completed_date); day 0 of the model is taken as a Sunday
DayOfWeek(day) == day % 7

\* the records the filter of get_weekly_completions keeps
InLastFourWeeks(habit_id) ==
    {c \in CompletionsOf(habit_id) : c.completed_date >= today - 4 * 7}

\* the query grouped by the column labelled group_label, and the dict built
\* from the attribute row_label of its rows.  A label that is not among the
\* selected ones cannot be resolved: the call raises.
WeeklyQuery(habit_id, group_label, row_label) ==
    LET rows == {DayOfWeek(c.completed_date) : c \in InLastFourWeeks(habit_id)}
    IN  IF group_label \notin WeeklyLabels THEN [raised |-> TRUE, result |-> << >>]
        ELSE IF rows # {} /\ row_label \notin WeeklyLabels
             THEN [raised |-> TRUE, result |-> << >>]
             ELSE [raised |-> FALSE,
                   result |-> [dow \in rows |->
                                 Cardinality({c \in InLastFourWeeks(habit_id) :
                                                DayOfWeek(c.completed_date) = dow})]]

get_weekly_completions(habit_id) ==
    WeeklyQuery(habit_id, "day_of_week", "day_of_week")

----------------------------------------------------------------------------
(* app/main.py *)

NoView == << >>

Resp(op, status, habit_id, date) ==
    [op |-> op, status |-> status, key |-> <<habit_id, date>>, view |-> NoView]

\* the lookup of a habit by id alone, without the owner_id filter
Owned_any(user, habit_id) ==
    habit_id \in DOMAIN habits

\* .filter(Habit.id == habit_id, Habit.owner_id == current_user.id).first()
Owned(user, habit_id) ==
    habit_id \in DOMAIN habits /\ habits[habit_id].owner_id = user

IdleView == [pc |-> "idle", user |-> 0, today |-> None, todo |-> {},
             first |-> {}, rate |-> <<0, 1>>, result |-> NoView]

Init ==
    /\ today = 0
    /\ habits = << >>
    /\ completions = {}
    /\ nextHabitId = 1
    /\ nextCompletionId = 1
    /\ pc = [p \in Procs |-> "idle"]
    /\ req = [p \in Procs |-> [habit_id |-> 0, completed_date |-> None]]
    /\ resp = Resp("none", 0, 0, None)
    /\ tv = IdleView

\* the calendar date advances
Tick ==
    /\ today' = today + 1
    /\ UNCHANGED <<habits, completions, nextHabitId, nextCompletionId, pc, req, resp>>

create_habit(user, name, description, frequency) ==
    /\ habits' = habits @@ (nextHabitId :>
                    [name |-> name, description |-> description,
                     frequency |-> frequency, created_at |-> today,
                     updated_at |-> None, owner_id |-> user])
    /\ nextHabitId' = nextHabitId + 1
    /\ resp' = Resp("create_habit", 200, 0, None)
    /\ UNCHANGED <<today, completions, nextCompletionId, pc, req>>

\* the delete without the cascade to the habit's completions
delete_habit_no_cascade(user, habit_id) ==
    /\ IF ~Owned(user, habit_id)
       THEN /\ resp' = Resp("delete_habit", 404, 0, None)
            /\ UNCHANGED habits
       ELSE /\ habits' = [h \in DOMAIN habits \ {habit_id} |-> habits[h]]
            /\ resp' = Resp("delete_habit", 200, 0, None)
    /\ UNCHANGED <<today, completions, nextHabitId, nextCompletionId, pc, req>>

\* db.delete(habit): the relationship cascade deletes the habit's completions
delete_habit(user, habit_id) ==
    /\ IF ~Owned(user, habit_id)
       THEN /\ resp' = Resp("delete_habit", 404, 0, None)
            /\ UNCHANGED <<habits, completions>>
       ELSE /\ habits' = [h \in DOMAIN habits \ {habit_id} |-> habits[h]]
            /\ completions' = {c \in completions : c.habit_id # habit_id}
            /\ resp' = Resp("delete_habit", 200, 0, None)
    /\ UNCHANGED <<today, nextHabitId, nextCompletionId, pc, req>>

HabitUpdates == [name : {NoStr, "swim"}, description : {NoStr, "5km"},
                 frequency : {NoStr, "weekly"}]

\* the setattr loop without its `if value is not None`
ApplyUpdate_with_nulls(habit, update) ==
    [habit EXCEPT !.name = update.name, !.description = update.description,
                  !.frequency = update.frequency]

\* the setattr loop: a field of the request that is not None overwrites
ApplyUpdate(habit, update) ==
    [habit EXCEPT !.name = IF update.name # NoStr THEN update.name ELSE @,
                  !.description = IF update.description # NoStr
                                  THEN update.description ELSE @,
                  !.frequency = IF update.frequency # NoStr
                                THEN update.frequency ELSE @]

\* onupdate=func.now(): the UPDATE that a net change emits stamps updated_at
Touch(old, new) ==
    IF new # old THEN [new EXCEPT !.updated_at = today] ELSE new

update_habit(user, habit_id, update) ==
    /\ IF ~Owned(user, habit_id)
       THEN /\ resp' = Resp("update_habit", 404, 0, None)
            /\ UNCHANGED habits
       ELSE /\ habits' = [habits EXCEPT ![habit_id] =
                            Touch(@, ApplyUpdate(@, update))]
            /\ resp' = Resp("update_habit", 200, 0, None)
    /\ UNCHANGED <<today, completions, nextHabitId, nextCompletionId, pc, req>>

Existing(habit_id, completed_date) ==
    {c \in completions : c.habit_id = habit_id /\ c.completed_date = completed_date}

IdleReq == [habit_id |-> 0, completed_date |-> None]

\* create_completion up to the existing_completion query: the reads of the
\* handler (ownership lookup, date default, duplicate check) as one store step
create_completion_check(p, user, habit_id, completed_date) ==
    /\ pc[p] = "idle"
    /\ LET completion_date == IF completed_date # None THEN completed_date ELSE today
       IN  IF ~Owned(user, habit_id)
           THEN /\ resp' = Resp("create_completion", 404, 0, None)
                /\ UNCHANGED <<pc, req>>
           ELSE IF Existing(habit_id, completion_date) # {}
           THEN /\ resp' = Resp("create_completion", 400, habit_id, completion_date)
                /\ UNCHANGED <<pc, req>>
           ELSE /\ req' = [req EXCEPT ![p] = [habit_id |-> habit_id,
                                              completed_date |-> completion_date]]
                /\ pc' = [pc EXCEPT ![p] = "insert"]
                /\ UNCHANGED resp
    /\ UNCHANGED <<today, habits, completions, nextHabitId, nextCompletionId>>

\* create_completion from db.add on: the insert and its commit.  The table declares
\* habit_id a foreign key and no unique constraint.
create_completion_insert(p) ==
    /\ pc[p] = "insert"
    /\ IF req[p].habit_id \notin DOMAIN habits
       THEN /\ resp' = Resp("create_completion", 500, 0, None)
            /\ UNCHANGED <<completions, nextCompletionId>>
       ELSE /\ completions' = completions \cup
                    {[id |-> nextCompletionId, habit_id |-> req[p].habit_id,
                      completed_date |-> req[p].completed_date]}
            /\ nextCompletionId' = nextCompletionId + 1
            /\ resp' = Resp("create_completion", 200,
                            req[p].habit_id, req[p].completed_date)
    /\ pc' = [pc EXCEPT ![p] = "idle"]
    /\ req' = [req EXCEPT ![p] = IdleReq]
    /\ UNCHANGED <<today, habits, nextHabitId>>

delete_completion(user, completion_id) ==
    /\ LET found == {c \in completions :
                        c.id = completion_id /\ Owned(user, c.habit_id)}
       IN  IF found = {}
           THEN /\ resp' = Resp("delete_completion", 404, 0, None)
                /\ UNCHANGED completions
           ELSE \E c \in found :
                /\ completions' = completions \ {c}
                /\ resp' = Resp("delete_completion", 200,
                                c.habit_id, c.completed_date)
    /\ UNCHANGED <<today, habits, nextHabitId, nextCompletionId, pc, req>>

\* one entry of the today view; today_completion is what .first() returned
TodayEntry(habit_id, today_completion) ==
    [completions |-> today_completion,
     completion_rate |-> Round2(calculate_completion_rate(habit_id)),
     current_streak |-> calculate_current_streak(habit_id),
     completed_today |-> today_completion # {}]

\* .first() of the records of the habit dated today: none, or any one of them
FirstToday(habit_id) ==
    IF Existing(habit_id, today) = {} THEN {{}}
    ELSE {{c} : c \in Existing(habit_id, today)}

get_today_habits(user) ==
    /\ \E first \in [{h \in DOMAIN habits : habits[h].owner_id = user}
                        -> UNION {FirstToday(h) : h \in DOMAIN habits}] :
          /\ \A h \in DOMAIN first : first[h] \in FirstToday(h)
          /\ resp' = [op |-> "get_today_habits", status |-> 200,
                      key |-> <<0, None>>,
                      view |-> [h \in DOMAIN first |-> TodayEntry(h, first[h])]]
    /\ UNCHANGED <<today, habits, completions, nextHabitId, nextCompletionId, pc, req>>

\* a habit as HabitResponse carries it
HabitResponse(h) == [id |-> h, habit |-> habits[h]]

ReadOnly == UNCHANGED <<today, habits, completions, nextHabitId, nextCompletionId,
                        pc, req>>

\* the query has no order_by: offset and limit cut any `limit` rows out of
\* the matching ones that are left after `skip` of them
get_habits(user, skip, limit, frequency) ==
    /\ LET matching == {h \in DOMAIN habits :
                           /\ habits[h].owner_id = user
                           /\ frequency # NoStr => habits[h].frequency = frequency}
           left == IF Cardinality(matching) > skip
                   THEN Cardinality(matching) - skip ELSE 0
           n == IF left < limit THEN left ELSE limit
       IN  \E page \in {P \in SUBSET matching : Cardinality(P) = n} :
              resp' = [op |-> "get_habits", status |-> 200, key |-> <<0, None>>,
                       view |-> [habits |-> {HabitResponse(h) : h \in page}]]
    /\ ReadOnly

get_habit(user, habit_id) ==
    /\ IF ~Owned(user, habit_id)
       THEN resp' = Resp("get_habit", 404, 0, None)
       ELSE resp' = [op |-> "get_habit", status |-> 200, key |-> <<habit_id, None>>,
                     view |-> HabitResponse(habit_id)]
    /\ ReadOnly

\* .order_by(completed_date.desc()).all(): the records, newest first
RECURSIVE CompletionsByDateDesc(_)
CompletionsByDateDesc(S) ==
    IF S = {} THEN << >>
    ELSE LET m == CHOOSE r \in S : \A q \in S : q.completed_date <= r.completed_date
         IN  <<m>> \o CompletionsByDateDesc(S \ {m})

get_habit_completions(user, habit_id) ==
    /\ IF ~Owned(user, habit_id)
       THEN resp' = Resp("get_habit_completions", 404, 0, None)
       ELSE resp' = [op |-> "get_habit_completions", status |-> 200,
                     key |-> <<habit_id, None>>,
                     view |-> CompletionsByDateDesc(CompletionsOf(habit_id))]
    /\ ReadOnly

get_habit_detailed(user, habit_id) ==
    /\ IF ~Owned(user, habit_id)
       THEN resp' = Resp("get_habit_detailed", 404, 0, None)
       ELSE resp' = [op |-> "get_habit_detailed", status |-> 200,
                     key |-> <<habit_id, None>>,
                     view |-> [habit |-> HabitResponse(habit_id),
                               completions |-> CompletionsOf(habit_id),
                               completion_rate |->
                                   Round2(calculate_completion_rate(habit_id)),
                               current_streak |->
                                   calculate_current_streak(habit_id)]]
    /\ ReadOnly

\* habits_with_streaks after its sort: the entries, longest streak first
RECURSIVE SortByStreakDesc(_)
SortByStreakDesc(S) ==
    IF S = {} THEN << >>
    ELSE LET m == CHOOSE r \in S : \A q \in S : q.streak <= r.streak
         IN  <<m>> \o SortByStreakDesc(S \ {m})

get_stats_overview(user) ==
    /\ LET own == {h \in DOMAIN habits : habits[h].owner_id = user}
           habits_with_streaks ==
               {[habit_id |-> h, habit_name |-> habits[h].name,
                 streak |-> calculate_current_streak(h)] :
                    h \in {g \in own : calculate_current_streak(g) > 0}}
           sorted == SortByStreakDesc(habits_with_streaks)
       IN  resp' = [op |-> "get_stats_overview", status |-> 200,
                    key |-> <<0, None>>,
                    view |-> [total_habits |-> Cardinality(own),
                              total_completions |->
                                  Cardinality({c \in completions :
                                      \E h \in own : c.habit_id = h}),
                              longest_streaks |->
                                  SubSeq(sorted, 1, IF Len(sorted) < 5
                                                    THEN Len(sorted) ELSE 5)]]
    /\ ReadOnly

\* get_today_habits query by query, as the handler runs it when other
\* requests and the clock move between its queries.
\* lines 79-83: today is read once, the habits of the user are listed
get_today_habits_list(user) ==
    /\ tv.pc = "idle"
    /\ LET own == {h \in DOMAIN habits : habits[h].owner_id = user}
       IN  IF own = {}
           THEN /\ resp' = [op |-> "get_today_habits", status |-> 200,
                            key |-> <<0, None>>, view |-> NoView]
                /\ UNCHANGED tv
           ELSE /\ tv' = [IdleView EXCEPT !.pc = "first", !.user = user,
                                          !.today = today, !.todo = own]
                /\ UNCHANGED resp
    /\ UNCHANGED <<today, habits, completions, nextHabitId, nextCompletionId, pc, req>>

\* the habit the loop of line 86 is at
LoopHabit == CHOOSE h \in tv.todo : \A g \in tv.todo : h <= g

\* lines 88-95: .first() of the records of the habit dated with the today of
\* line 79
get_today_habits_first ==
    /\ tv.pc = "first"
    /\ \E first \in (IF Existing(LoopHabit, tv.today) = {} THEN {{}}
                     ELSE {{c} : c \in Existing(LoopHabit, tv.today)}) :
          tv' = [tv EXCEPT !.pc = "rate", !.first = first]
    /\ UNCHANGED <<today, habits, completions, nextHabitId, nextCompletionId,
                   pc, req, resp>>

\* line 97: calculate_completion_rate queries the store and reads the clock
get_today_habits_rate ==
    /\ tv.pc = "rate"
    /\ tv' = [tv EXCEPT !.pc = "streak",
                        !.rate = calculate_completion_rate(LoopHabit)]
    /\ UNCHANGED <<today, habits, completions, nextHabitId, nextCompletionId,
                   pc, req, resp>>

\* lines 98-115: calculate_current_streak queries the store and reads the
\* clock, the entry is appended; line 117 returns after the last habit
get_today_habits_streak ==
    /\ tv.pc = "streak"
    /\ LET entry == [completions |-> tv.first,
                     completion_rate |-> Round2(tv.rate),
                     current_streak |-> calculate_current_streak(LoopHabit),
                     completed_today |-> tv.first # {}]
           result == [h \in DOMAIN tv.result \cup {LoopHabit} |->
                         IF h = LoopHabit THEN entry ELSE tv.result[h]]
       IN  IF tv.todo = {LoopHabit}
           THEN /\ resp' = [op |-> "get_today_habits", status |-> 200,
                            key |-> <<0, None>>, view |-> result]
                /\ tv' = IdleView
           ELSE /\ tv' = [tv EXCEPT !.pc = "first", !.result = result,
                                    !.todo = tv.todo \ {LoopHabit},
                                    !.first = {}, !.rate = <<0, 1>>]
                /\ UNCHANGED resp
    /\ UNCHANGED <<today, habits, completions, nextHabitId, nextCompletionId, pc, req>>

\* a call of utils.get_weekly_completions; an exception that escapes a handler
\* is answered with 500
call_get_weekly_completions(habit_id) ==
    /\ LET weekly == get_weekly_completions(habit_id)
       IN  resp' = [op |-> "get_weekly_completions",
                    status |-> IF weekly.raised THEN 500 ELSE 200,
                    key |-> <<habit_id, None>>,
                    view |-> weekly.result]
    /\ UNCHANGED <<today, habits, completions, nextHabitId, nextCompletionId,
                   pc, req, tv>>

\* the update the clients of SpecOwner send
OwnerUpdate == [name |-> "swim", description |-> NoStr, frequency |-> NoStr]

HabitsFull == nextHabitId > MaxHabits
CompletionsFull == nextCompletionId > MaxCompletions

\* the store under concurrent completion requests; habits keep the fields
\* they were created with
Next ==
    \/ today < MaxDay /\ Tick /\ UNCHANGED tv
    \/ \E u \in Users : ~HabitsFull /\ create_habit(u, "run", NoStr, "daily") /\ UNCHANGED tv
    \/ \E u \in Users, h \in HabitIds : delete_habit(u, h) /\ UNCHANGED tv
    \/ \E p \in Procs, u \in Users, h \in HabitIds, d \in RequestDates :
          create_completion_check(p, u, h, d) /\ UNCHANGED tv
    \/ \E p \in Procs : ~CompletionsFull /\ create_completion_insert(p) /\ UNCHANGED tv
    \/ \E u \in Users, c \in 1..MaxCompletions : delete_completion(u, c) /\ UNCHANGED tv
    \/ \E u \in Users : get_today_habits(u) /\ UNCHANGED tv

Spec == Init /\ [][Next]_vars

NoneInFlight == \A p \in Procs : pc[p] = "idle"

\* habit bookkeeping by one client at a time: a request is taken up when no
\* other is in flight, and every field of a habit varies.  User 1 owns the
\* habits and logs one completion; user 2 sends requests for them too.
NextHabit ==
    \/ today < MaxDay /\ Tick /\ UNCHANGED tv
    \/ \E n \in Names, d \in Descriptions, f \in Frequencies :
          ~HabitsFull /\ NoneInFlight /\ create_habit(1, n, d, f) /\ UNCHANGED tv
    \/ \E u \in Users, h \in HabitIds, upd \in HabitUpdates :
          NoneInFlight /\ update_habit(u, h, upd) /\ UNCHANGED tv
    \/ \E u \in Users, h \in HabitIds : NoneInFlight /\ delete_habit(u, h) /\ UNCHANGED tv
    \/ \E u \in Users, h \in HabitIds : create_completion_check(1, u, h, None) /\ UNCHANGED tv
    \/ nextCompletionId = 1 /\ create_completion_insert(1) /\ UNCHANGED tv
    \/ \E u \in Users, c \in 1..MaxCompletions :
          NoneInFlight /\ delete_completion(u, c) /\ UNCHANGED tv

SpecHabit == Init /\ [][NextHabit]_vars

\* one client and one habit over a longer stretch of days
NextStats ==
    \/ today < MaxStatDay /\ Tick /\ UNCHANGED tv
    \/ nextHabitId = 1 /\ create_habit(1, "run", NoStr, "daily") /\ UNCHANGED tv
    \/ \E d \in RequestDates : create_completion_check(1, 1, 1, d) /\ UNCHANGED tv
    \/ nextCompletionId <= MaxStatCompletions /\ create_completion_insert(1) /\ UNCHANGED tv
    \/ \E c \in 1..MaxStatCompletions : delete_completion(1, c) /\ UNCHANGED tv
    \/ get_today_habits(1) /\ UNCHANGED tv

SpecStats == Init /\ [][NextStats]_vars

\* one client's today view, query by query, while the same client logs and
\* deletes completions and the date advances
NextToday ==
    \/ today < MaxDay /\ Tick /\ UNCHANGED tv
    \/ ~HabitsFull /\ tv.pc = "idle" /\ create_habit(1, "run", NoStr, "daily")
          /\ UNCHANGED tv
    \/ \E h \in HabitIds, d \in RequestDates :
          create_completion_check(1, 1, h, d) /\ UNCHANGED tv
    \/ ~CompletionsFull /\ create_completion_insert(1) /\ UNCHANGED tv
    \/ \E c \in 1..MaxCompletions : delete_completion(1, c) /\ UNCHANGED tv
    \/ get_today_habits_list(1)
    \/ get_today_habits_first
    \/ get_today_habits_rate
    \/ get_today_habits_streak

SpecToday == Init /\ [][NextToday]_vars

\* one client and one habit, created on day 0, over some weeks: completions
\* are logged for the day of the request, and get_weekly_completions is called
NextWeekly ==
    \/ today < MaxWeeklyDay /\ Tick /\ UNCHANGED tv
    \/ nextHabitId = 1 /\ today = 0 /\ create_habit(1, "run", NoStr, "daily")
          /\ UNCHANGED tv
    \/ create_completion_check(1, 1, 1, None) /\ UNCHANGED tv
    \/ ~CompletionsFull /\ create_completion_insert(1) /\ UNCHANGED tv
    \/ \E c \in 1..MaxCompletions : delete_completion(1, c) /\ UNCHANGED tv
    \/ \E h \in HabitIds : call_get_weekly_completions(h)

SpecWeekly == Init /\ [][NextWeekly]_vars

\* two clients, each with habits of its own, sending every request for any
\* habit or completion id, one request at a time; a completion is logged for
\* the day of the request
NextOwner ==
    \/ today < MaxDay /\ Tick /\ UNCHANGED tv
    \/ \E u \in Users : ~HabitsFull /\ NoneInFlight
          /\ create_habit(u, "run", NoStr, "daily") /\ UNCHANGED tv
    \/ \E u \in Users, h \in HabitIds :
          NoneInFlight /\ update_habit(u, h, OwnerUpdate) /\ UNCHANGED tv
    \/ \E u \in Users, h \in HabitIds :
          NoneInFlight /\ delete_habit(u, h) /\ UNCHANGED tv
    \/ \E u \in Users, h \in HabitIds :
          create_completion_check(1, u, h, None) /\ UNCHANGED tv
    \/ ~CompletionsFull /\ create_completion_insert(1) /\ UNCHANGED tv
    \/ \E u \in Users, c \in 1..MaxCompletions :
          NoneInFlight /\ delete_completion(u, c) /\ UNCHANGED tv
    \/ \E u \in Users, skip \in 0..1, limit \in {1, 100},
          frequency \in {NoStr, "daily"} :
          NoneInFlight /\ get_habits(u, skip, limit, frequency) /\ UNCHANGED tv
    \/ \E u \in Users : NoneInFlight /\ get_today_habits(u) /\ UNCHANGED tv
    \/ \E u \in Users, h \in HabitIds :
          NoneInFlight /\ get_habit(u, h) /\ UNCHANGED tv
    \/ \E u \in Users, h \in HabitIds :
          NoneInFlight /\ get_habit_completions(u, h) /\ UNCHANGED tv
    \/ \E u \in Users, h \in HabitIds :
          NoneInFlight /\ get_habit_detailed(u, h) /\ UNCHANGED tv
    \/ \E u \in Users : NoneInFlight /\ get_stats_overview(u) /\ UNCHANGED tv

SpecOwner == Init /\ [][NextOwner]_vars

----------------------------------------------------------------------------
(* Properties *)

\* a <= b for two rates kept as fractions with positive denominators
RateLE(a, b) == a[1] * b[2] <= b[1] * a[2]

DistinctDates(habit_id) ==
    \A a, b \in CompletionsOf(habit_id) :
        a.completed_date = b.completed_date => a = b

\* the days with a completion that end, without a gap, at `day`
RECURSIVE RunEndingAt(_, _)
RunEndingAt(D, day) ==
    IF day \in D THEN 1 + RunEndingAt(D \ {day}, day - 1) ELSE 0

ConsecutiveDays(D, day) ==
    IF day \in D THEN RunEndingAt(D, day) ELSE RunEndingAt(D, day - 1)

\* C1: for a habit whose completions have pairwise distinct dates, the current
\* streak is the number of consecutive days with a completion in the run that
\* ends today or, when today has none, yesterday (0 when neither has one).
C1_StreakIsRunLength ==
    \A h \in DOMAIN habits :
        DistinctDates(h) =>
            calculate_current_streak(h) = ConsecutiveDays(DatesOf(h), today)

\* C2: the store never holds two completions of one habit for one date.
C2_OnePerHabitAndDate ==
    \A a, b \in completions :
        (a.habit_id = b.habit_id /\ a.completed_date = b.completed_date) => a = b

ResolvedDate(completed_date) ==
    IF completed_date # None THEN completed_date ELSE today

\* C3: a create_completion for an owned habit and a date that already has a
\* completion answers 400 and leaves the completions as they are; and a
\* create_completion answered right after delete_completion removed the record
\* of the same habit and date succeeds.
C3_RejectedUntilDeleted ==
    [][/\ \A p \in Procs, u \in Users, h \in HabitIds, d \in RequestDates :
            (/\ create_completion_check(p, u, h, d)
             /\ Owned(u, h)
             /\ Existing(h, ResolvedDate(d)) # {})
            => (/\ resp'.op = "create_completion"
                /\ resp'.status = 400
                /\ completions' = completions)
       /\ (/\ resp.op = "delete_completion"
           /\ resp.status = 200
           /\ resp'.op = "create_completion"
           /\ resp'.key = resp.key)
          => resp'.status = 200]_vars

\* C4: an entry of the today view that reports completed_today also reports a
\* streak of at least 1, and its completions list is exactly one record, a
\* record of the habit dated today.
C4_CompletedTodayHasStreak ==
    [][\A u \in Users :
          get_today_habits(u) =>
              \A h \in DOMAIN resp'.view :
                  resp'.view[h].completed_today =>
                      /\ resp'.view[h].current_streak >= 1
                      /\ resp'.view[h].completions \subseteq Existing(h, today)
                      /\ Cardinality(resp'.view[h].completions) = 1]_vars

\* one record per date: the one with the smallest id
Deduplicated(S) ==
    {c \in S : \A b \in S : b.completed_date = c.completed_date => c.id <= b.id}

\* C5: records that share a date count once: the streak equals the streak of
\* the completions with the duplicates removed.
C5_DuplicateDatesCountOnce ==
    \A h \in DOMAIN habits :
        calculate_current_streak(h) = StreakOf(Deduplicated(CompletionsOf(h)), today)

\* C6: with at most one completion per date, the completion rate of a habit
\* lies between 0 and 100, that is 0 <= count(completions) <= days_existed.
C6_RateWithinPercent ==
    \A h \in DOMAIN habits :
        DistinctDates(h) =>
            /\ RateLE(<<0, 1>>, calculate_completion_rate(h))
            /\ RateLE(calculate_completion_rate(h), <<100, 1>>)
            /\ Cardinality(CompletionsOf(h)) <= days_existed(h)

\* C7: a step that inserts one more completion, on a date the habit had no
\* completion for, does not decrease the completion rate of any habit.
C7_RateMonotone ==
    [][\A p \in Procs :
          (/\ create_completion_insert(p)
           /\ Existing(req[p].habit_id, req[p].completed_date) = {}
           /\ completions' # completions)
          => \A h \in DOMAIN habits :
                 RateLE(calculate_completion_rate(h), calculate_completion_rate(h)')]_vars

C7_Witness ==
    /\ resp.op = "create_completion"
    /\ resp.status = 200
    /\ 1 \in DOMAIN habits
    /\ Cardinality(CompletionsOf(1)) = 3
    /\ days_existed(1) = 2

\* C8: days_existed is at least 1 for every habit (1 for a habit created
\* today), the rate is count * 100 / days_existed, a habit created 4 days ago
\* with 2 completions has rate 40, and a habit without completions has rate 0.
C8_DaysExistedAtLeastOne ==
    \A h \in DOMAIN habits :
        LET count == Cardinality(CompletionsOf(h))
            days == (today - habits[h].created_at) + 1
            rate == calculate_completion_rate(h)
        IN  /\ days_existed(h) >= 1
            /\ habits[h].created_at = today => days_existed(h) = 1
            /\ rate[2] > 0
            /\ rate[1] * days = count * 100 * rate[2]
            /\ (today - habits[h].created_at = 4 /\ count = 2)
                  => rate[1] = 40 * rate[2]
            /\ count = 0 => rate[1] = 0

C8_Witness ==
    /\ resp.op = "get_today_habits"
    /\ 1 \in DOMAIN resp.view
    /\ 1 \in DOMAIN habits
    /\ today - habits[1].created_at = 4
    /\ Cardinality(CompletionsOf(1)) = 2
    /\ resp.view[1].completion_rate = 4000

\* C9: every completion references a habit that exists; delete_habit removes
\* the habit with exactly its own completions; create_completion inserts only
\* for a habit that exists.
C9_NoOrphanCompletions ==
    /\ [](\A c \in completions : c.habit_id \in DOMAIN habits)
    /\ [][/\ \A u \in Users, h \in HabitIds :
               (delete_habit(u, h) /\ Owned(u, h))
               => (/\ DOMAIN habits' = DOMAIN habits \ {h}
                   /\ \A g \in DOMAIN habits' : habits'[g] = habits[g]
                   /\ completions' = {c \in completions : c.habit_id # h})
          /\ \A c \in completions' \ completions :
               c.habit_id \in DOMAIN habits /\ c.habit_id \in DOMAIN habits']_vars

C9_Witness ==
    /\ resp.op = "delete_habit"
    /\ resp.status = 200
    /\ nextCompletionId = 3
    /\ DOMAIN habits = {2}
    /\ \E c \in completions : completions = {c} /\ c.habit_id = 2

\* what update_habit leaves alone, apart from updated_at
UpdateFrame(h, update) ==
    /\ DOMAIN habits' = DOMAIN habits
    /\ habits'[h].name =
          (IF update.name # NoStr THEN update.name ELSE habits[h].name)
    /\ habits'[h].description =
          (IF update.description # NoStr THEN update.description
                                          ELSE habits[h].description)
    /\ habits'[h].frequency =
          (IF update.frequency # NoStr THEN update.frequency
                                        ELSE habits[h].frequency)
    /\ habits'[h].created_at = habits[h].created_at
    /\ habits'[h].owner_id = habits[h].owner_id
    /\ \A g \in DOMAIN habits \ {h} : habits'[g] = habits[g]
    /\ completions' = completions

\* a step of update_habit that found the habit (the first three conjuncts
\* follow from the last and are there to decide most steps early)
UpdateStep(u, h, update) ==
    /\ resp'.op = "update_habit"
    /\ resp'.status = 200
    /\ Owned(u, h)
    /\ update_habit(u, h, update)

CreatedAtKept ==
    \A g \in DOMAIN habits \cap DOMAIN habits' :
        habits'[g].created_at = habits[g].created_at

PossibleCompletions(h) ==
    [id : 1..MaxCompletions, habit_id : {h}, completed_date : -1..(MaxDay + 1)]

\* the entry is what lines 88-113 give over one date and one set of
\* completions of the habit
OverOneSnapshot(h, entry) ==
    \E day \in 0..MaxDay, S \in SUBSET PossibleCompletions(h) :
        LET dated == {c \in S : c.completed_date = day}
            days == (day - habits[h].created_at) + 1
        IN  /\ habits[h].created_at <= day
            /\ entry.completed_today = (dated # {})
            /\ entry.completions \subseteq dated
            /\ Cardinality(entry.completions) = IF dated = {} THEN 0 ELSE 1
            /\ entry.completion_rate = Round2(<<Cardinality(S) * 100, days>>)
            /\ entry.current_streak = StreakOf(S, day)

\* C11: every entry of a today view that is returned is computed over one
\* snapshot: its completed_today flag, its completion list, its completion
\* rate and its current streak are those of one date and one set of
\* completions of the habit, whatever other requests and the clock did while
\* the entry was built.
C11_EntryOverOneSnapshot ==
    resp.op = "get_today_habits" =>
        \A h \in DOMAIN resp.view :
            h \in DOMAIN habits => OverOneSnapshot(h, resp.view[h])

RECURSIVE SumOver(_, _)
SumOver(f, D) ==
    IF D = {} THEN 0
    ELSE LET d == CHOOSE x \in D : TRUE IN f[d] + SumOver(f, D \ {d})

\* C12: a call of get_weekly_completions returns a mapping whose keys are
\* exactly the days of the week (0-6) on which the habit has at least one
\* completion dated today - 28 days or later, each mapped to the number of
\* those completions; no key has the value 0, and the values sum to at most
\* the number of completions in the window.
C12_WeeklyMapping ==
    [][\A h \in HabitIds :
         resp'.op = "get_weekly_completions" /\ call_get_weekly_completions(h)
         => LET window == {c \in CompletionsOf(h) : c.completed_date >= today - 28}
                days == {c.completed_date % 7 : c \in window}
                result == resp'.view
            IN  /\ resp'.status = 200
                /\ DOMAIN result = days
                /\ days \subseteq 0..6
                /\ \A k \in days :
                      /\ result[k] = Cardinality({c \in window :
                                                    c.completed_date % 7 = k})
                      /\ result[k] # 0
                /\ SumOver(result, days) <= Cardinality(window)]_vars

\* the habit exists and belongs to somebody else
ForeignHabit(u, h) == h \in DOMAIN habits /\ habits[h].owner_id # u

\* the completion exists and its habit belongs to somebody else
ForeignCompletion(u, c) ==
    \E r \in completions : r.id = c /\ ForeignHabit(u, r.habit_id)

\* the step answers not-found and changes nothing in the store, nor starts an
\* insert
NotFoundNoChange ==
    /\ resp'.status = 404
    /\ UNCHANGED <<habits, completions, nextHabitId, nextCompletionId, pc, req>>

\* a request of user u that names habit h
NamesHabit(u, h) ==
    \/ resp'.op = "get_habit" /\ get_habit(u, h)
    \/ update_habit(u, h, OwnerUpdate)
    \/ delete_habit(u, h)
    \/ create_completion_check(1, u, h, None)
    \/ resp'.op = "get_habit_completions" /\ get_habit_completions(u, h)
    \/ resp'.op = "get_habit_detailed" /\ get_habit_detailed(u, h)

OwnHabits(u) == {h \in DOMAIN habits : habits[h].owner_id = u}

\* what a listing step of user u returned holds data of u's habits only
ListsOnlyOwn(u) ==
    /\ (resp'.op = "get_habits" /\ \E skip \in 0..1, limit \in {1, 100},
                                      frequency \in {NoStr, "daily"} :
                                      get_habits(u, skip, limit, frequency))
          => \A e \in resp'.view.habits :
                e.id \in OwnHabits(u) /\ e.habit = habits[e.id]
    /\ (resp'.op = "get_today_habits" /\ get_today_habits(u))
          => /\ DOMAIN resp'.view \subseteq OwnHabits(u)
             /\ \A h \in DOMAIN resp'.view :
                   \A c \in resp'.view[h].completions : c.habit_id = h
    /\ (resp'.op = "get_stats_overview" /\ get_stats_overview(u))
          => /\ resp'.view.total_habits = Cardinality(OwnHabits(u))
             /\ resp'.view.total_completions =
                   Cardinality({c \in completions : c.habit_id \in OwnHabits(u)})
             /\ \A i \in DOMAIN resp'.view.longest_streaks :
                   resp'.view.longest_streaks[i].habit_id \in OwnHabits(u)

\* C13: ownership isolation.  A request of a user that names a habit or a
\* completion owned by another user (get_habit, update_habit, delete_habit,
\* create_completion, get_habit_completions, delete_completion,
\* get_habit_detailed) is answered with 404 and leaves the store unchanged;
\* get_habits, get_today_habits and get_stats_overview return only data of
\* habits whose owner_id is the requesting user.
C13_OwnershipIsolation ==
    [][\A u \in Users :
         /\ \A h \in HabitIds :
               ForeignHabit(u, h) /\ NamesHabit(u, h) => NotFoundNoChange
         /\ \A c \in 1..MaxCompletions :
               ForeignCompletion(u, c) /\ delete_completion(u, c) => NotFoundNoChange
         /\ ListsOnlyOwn(u)]_vars

\* a get_habit_detailed request was answered with 404 although every habit id
\* it can name exists: the habit it named belongs to the other user.  Both
\* users own a habit, and a habit has a completion.
C13_Witness ==
    /\ resp.op = "get_habit_detailed" /\ resp.status = 404
    /\ DOMAIN habits = HabitIds
    /\ \A u \in Users : OwnHabits(u) # {}
    /\ completions # {}

====
